---- MODULE Spec2Model ----
(***************************************************************************)
(* WildWings mission supervisor (src/services/wildwings/main.py).          *)
(*                                                                         *)
(* The service keeps five module globals (mission_thread,                  *)
(* stop_mission_flag, current_process, is_running, logs).  The HTTP        *)
(* handlers are coroutines without an await, so the event loop runs them   *)
(* one at a time; the mission worker is a real thread and interleaves      *)
(* with the handler in progress at every read and write of a global.  The  *)
(* launch script is an opaque child process: it may print lines, stay      *)
(* silent, exit on its own, honour or ignore SIGTERM, and dies of SIGKILL. *)
(*                                                                         *)
(* Thread objects and child processes are numbered 1..MaxMissions in the   *)
(* order start_mission creates them; the child spawned by thread t is      *)
(* child t.  None is 0.                                                    *)
(***************************************************************************)
EXTENDS Integers, Sequences, FiniteSets, TLC

\* ---------------------------------------------------------------- bounds
\* Thread objects start_mission may create in one run of the model.
MaxMissions == 2
\* Text lines all children together may print in one run of the model.
MaxLines == 1
\* The same for the runs that start from a filled log list (InitLog).
LogLines == 2
\* Lines a child's stdout pipe buffers before the child blocks on write.
MaxPipe == 1
\* Lines of the external log file read by get_logs.
MaxFile == 1
\* Largest `lines` query parameter tried by get_logs.
MaxArg == 1

\* ------------------------------------------------------ program constants
\* main.py:90-91  "Keep only last 1000 log entries".
LogCapacity == 1000
\* main.py:240  mission_status reports the last 10 entries.
RecentCount == 10

None == 0
Threads == 1..MaxMissions

\* A line read from the child's pipe: a positive number n is the n-th text
\* line printed since service start (surrounding whitespace and the newline
\* are what strip() removes), Blank is a line of whitespace only, and Bad
\* is a line whose bytes the text decoder rejects (readline raises).
Blank == 0
Bad == -1
NoLine == -2

VARIABLES
    mission_thread,     \* main.py:32   None or the Thread object
    stop_mission_flag,  \* main.py:33   threading.Event, TRUE when set
    current_process,    \* main.py:34   None or the Popen object
    is_running,         \* main.py:35
    logs,               \* main.py:36   the list object `logs` is bound to
    wpc,                \* per Thread object: where run_mission_background is
    line,               \* per Thread object: the loop variable `line`
    proc,               \* per child: "none", "alive" or "exited"
    sig,                \* per child: strongest signal pending on it
    pipe,               \* per child: lines printed and not yet read
    emitted,            \* text lines printed so far by all children
    budget,             \* text lines the children may still print
    dropped,            \* history: a text line was printed and never logged
    afterStop,          \* history: a stop that found a worker alive has
                        \* returned and no start has returned since
    seen,               \* history: the statuses the service went through
                        \* since the mission_status call in progress began
    hpc,                \* the event loop: idle, or the handler line reached
    hloc,               \* locals of the handler in progress
    resp                \* the response being sent (hpc = "reply")

vars == << mission_thread, stop_mission_flag, current_process, is_running,
           logs, wpc, line, proc, sig, pipe, emitted, budget, dropped,
           afterStop, seen, hpc, hloc, resp >>

globals == << mission_thread, stop_mission_flag, current_process,
              is_running, logs >>
workerVars == << wpc, line >>
childVars == << proc, sig, pipe, emitted, budget >>
loopVars == << hpc, hloc, resp >>

\* ---------------------------------------------------------------- helpers
Min(a, b) == IF a < b THEN a ELSE b

\* The last n elements of s (all of s when it has fewer).
LastN(s, n) == SubSeq(s, Len(s) - Min(n, Len(s)) + 1, Len(s))

\* Python's s[-n:].  For n > 0 the last n elements (all when fewer exist);
\* -0 is 0, so s[-0:] is s[0:], the whole list; for n < 0 it is s[|n|:].
PySliceFromMinus(s, n) ==
    IF n > 0 THEN LastN(s, n)
    ELSE IF n = 0 THEN s
    ELSE SubSeq(s, Min(-n, Len(s)) + 1, Len(s))

\* Thread.is_alive(): started and run() not yet returned.
IsAlive(t) == t # None /\ wpc[t] \notin {"unborn", "unstarted", "dead"}

\* `mission_thread and mission_thread.is_alive()`
\* (lines 110, 144, 174, 202, 233)
WorkerAlive == mission_thread # None /\ IsAlive(mission_thread)

\* Lines 233-238: the status mission_status derives from the worker and the
\* flag.
StatusOf(alive, flag) ==
    IF alive THEN (IF flag THEN "stopping" ELSE "running") ELSE "idle"

\* The status a mission_status call would derive in this state.
Status == StatusOf(WorkerAlive, stop_mission_flag)

\* The places of the mission_status handler.
MsPcs == {"ms233", "ms235", "ms240", "ms244", "ms245", "ms246", "ms247",
          "ms249"}

\* The history kept while a mission_status call is in progress: every status
\* the service has had since the call began.
Observe ==
    seen' = IF hpc' \in MsPcs THEN seen \cup {Status'} ELSE {}

\* Thread objects created so far.
Created == {t \in Threads : wpc[t] # "unborn"}

\* line.strip(): the text of the line without surrounding whitespace; empty
\* (falsy) for a line of whitespace only.
Strip(l) == IF l = Blank THEN Blank ELSE l

\* The log entry of line 85: "<timestamp> - <stripped line>".  The timestamp
\* is the wall clock and is not modelled; the entry is identified by its text.
LogEntry(l) == Strip(l)

\* The record a handler's locals start from.
NoLocals ==
    [ lines |-> 0, obj |-> None, status |-> "-", alias |-> FALSE,
      recent |-> << >>, file |-> << >>, total_lines |-> 0,
      thread_alive |-> FALSE, stop_requested |-> FALSE, running |-> FALSE ]

\* No response in flight.
NoResp ==
    [ op |-> "-", code |-> 0, status |-> "-", was_running |-> FALSE,
      thread_alive |-> FALSE, stop_requested |-> FALSE, is_running |-> FALSE,
      total_logs |-> 0, recent_logs |-> << >>, logs |-> << >>,
      total_lines |-> 0, runtime_logs |-> << >>, lines |-> 0 ]

\* ------------------------------------------------------------------- Init
\* The state after the module is imported (lines 31-36): no thread, flag
\* clear, no process, not running, empty log list.
Init ==
    /\ mission_thread = None
    /\ stop_mission_flag = FALSE
    /\ current_process = None
    /\ is_running = FALSE
    /\ logs = << >>
    /\ wpc = [t \in Threads |-> "unborn"]
    /\ line = [t \in Threads |-> NoLine]
    /\ proc = [c \in Threads |-> "none"]
    /\ sig = [c \in Threads |-> "none"]
    /\ pipe = [c \in Threads |-> << >>]
    /\ emitted = 0
    /\ budget = MaxLines
    /\ dropped = FALSE
    /\ afterStop = FALSE
    /\ seen = {}
    /\ hpc = "idle"
    /\ hloc = NoLocals
    /\ resp = NoResp

\* ------------------------------------------------- the child process (env)
\* Popen.terminate(): SIGTERM to a child that has not been reaped; nothing
\* for one that has exited.
Terminate(c) ==
    sig' = [sig EXCEPT ![c] = IF proc[c] = "alive" /\ sig[c] = "none"
                              THEN "term" ELSE sig[c]]

\* Popen.kill(): SIGKILL, same rule.
Kill(c) ==
    sig' = [sig EXCEPT ![c] = IF proc[c] = "alive" THEN "kill" ELSE sig[c]]

\* The child prints one line: the next text line, a blank line, or a line
\* the decoder rejects.  It blocks when the pipe is full and cannot write
\* once the worker that held the read end is gone.
ChildPrint(c) ==
    /\ proc[c] = "alive"
    /\ wpc[c] # "dead"
    /\ Len(pipe[c]) < MaxPipe
    /\ \/ /\ budget > 0
          /\ emitted' = emitted + 1
          /\ budget' = budget - 1
          /\ pipe' = [pipe EXCEPT ![c] = Append(@, emitted + 1)]
       \/ /\ \E l \in {Blank, Bad} : pipe' = [pipe EXCEPT ![c] = Append(@, l)]
          /\ UNCHANGED << emitted, budget >>
    /\ UNCHANGED << globals, workerVars, proc, sig, dropped, afterStop, seen,
                    loopVars >>

\* The child exits on its own account: the script ends, or it honours a
\* SIGTERM it was sent.  Nothing obliges it to.
ChildExit(c) ==
    /\ proc[c] = "alive"
    /\ proc' = [proc EXCEPT ![c] = "exited"]
    /\ sig' = [sig EXCEPT ![c] = "none"]
    /\ UNCHANGED << globals, workerVars, pipe, emitted, budget, dropped,
                    afterStop, seen,
                    loopVars >>

\* SIGKILL cannot be ignored.
ChildKilled(c) ==
    /\ proc[c] = "alive"
    /\ sig[c] = "kill"
    /\ proc' = [proc EXCEPT ![c] = "exited"]
    /\ sig' = [sig EXCEPT ![c] = "none"]
    /\ UNCHANGED << globals, workerVars, pipe, emitted, budget, dropped,
                    afterStop, seen,
                    loopVars >>

\* ------------------------------------- run_mission_background (lines 38-102)
\* The worker's moves from one place to the next.
Goto(t, pc) == wpc' = [wpc EXCEPT ![t] = pc]

\* TrimLogs keeping the head of the list, `logs[:1000]`.
TrimLogsKeepsOldest(l) ==
    IF Len(l) > LogCapacity THEN SubSeq(l, 1, LogCapacity) ELSE l

\* Lines 90-91: `if len(logs) > 1000: logs = logs[-1000:]`.
TrimLogs(l) ==
    IF Len(l) > LogCapacity THEN PySliceFromMinus(l, LogCapacity) ELSE l

\* Lines 42-44: stop requested before any work: return (through finally).
W42_CheckStop(t) ==
    /\ wpc[t] = "w42"
    /\ Goto(t, IF stop_mission_flag THEN "w99" ELSE "w49")
    /\ UNCHANGED << globals, line, childVars, dropped, afterStop, seen,
                    loopVars >>

\* Lines 49-58: mkdir, the launch script's existence, chmod.  Any of them
\* may raise (FileNotFoundError of line 55 among them): on to `except`.
W49_Prepare(t) ==
    /\ wpc[t] = "w49"
    /\ \E ok \in BOOLEAN : Goto(t, IF ok THEN "w64" ELSE "w99")
    /\ UNCHANGED << globals, line, childVars, dropped, afterStop, seen,
                    loopVars >>

\* Lines 64-72: current_process = subprocess.Popen(...).  When Popen raises,
\* current_process keeps its value and no child exists.
W64_Popen(t) ==
    /\ wpc[t] = "w64"
    /\ \/ /\ current_process' = t
          /\ proc' = [proc EXCEPT ![t] = "alive"]
          /\ Goto(t, "w74")
       \/ /\ Goto(t, "w99")
          /\ UNCHANGED << current_process, proc >>
    /\ UNCHANGED << mission_thread, stop_mission_flag, is_running, logs, line,
                    sig, pipe, emitted, budget, dropped, afterStop, seen,
                    loopVars >>

\* Line 74: is_running = True.
W74_SetRunning(t) ==
    /\ wpc[t] = "w74"
    /\ is_running' = TRUE
    /\ Goto(t, "w78")
    /\ UNCHANGED << mission_thread, stop_mission_flag, current_process, logs,
                    line, childVars, dropped, afterStop, seen, loopVars >>

\* Line 78: readline on the stdout of the child this worker spawned (the
\* method was bound when the loop was entered).  It blocks until a line is
\* there or the write end is closed; '' (EOF) ends the loop; a line the
\* decoder rejects raises.
W78_Readline(t) ==
    /\ wpc[t] = "w78"
    /\ \/ /\ pipe[t] # << >>
          /\ Head(pipe[t]) # Bad
          /\ line' = [line EXCEPT ![t] = Head(pipe[t])]
          /\ pipe' = [pipe EXCEPT ![t] = Tail(@)]
          /\ Goto(t, "w79")
       \/ /\ pipe[t] # << >>
          /\ Head(pipe[t]) = Bad
          /\ pipe' = [pipe EXCEPT ![t] = Tail(@)]
          /\ Goto(t, "w99")
          /\ UNCHANGED line
       \/ /\ pipe[t] = << >>
          /\ proc[t] = "exited"
          /\ Goto(t, "w93")
          /\ UNCHANGED << line, pipe >>
    /\ UNCHANGED << globals, proc, sig, emitted, budget, dropped, afterStop,
                    seen,
                    loopVars >>

\* W79_CheckStop without the check: every line read is handled.
W79_NoCheck(t) ==
    /\ wpc[t] = "w79"
    /\ Goto(t, "w84")
    /\ UNCHANGED << globals, line, childVars, dropped, afterStop, seen,
                    loopVars >>

\* Line 79: the stop flag is checked once per line, before the line is used.
W79_CheckStop(t) ==
    /\ wpc[t] = "w79"
    /\ IF stop_mission_flag
       THEN /\ Goto(t, "w81")
            /\ dropped' = (dropped \/ line[t] > Blank)
       ELSE /\ Goto(t, "w84")
            /\ UNCHANGED dropped
    /\ UNCHANGED << globals, line, childVars, afterStop, seen, loopVars >>

\* Lines 81-82: current_process.terminate(); break.  The global is read
\* again here: None raises AttributeError.
W81_Terminate(t) ==
    /\ wpc[t] = "w81"
    /\ line' = [line EXCEPT ![t] = NoLine]
    /\ IF current_process = None
       THEN Goto(t, "w99") /\ UNCHANGED sig
       ELSE Goto(t, "w93") /\ Terminate(current_process)
    /\ UNCHANGED << globals, proc, pipe, emitted, budget, dropped, afterStop,
                    seen,
                    loopVars >>

\* Lines 84-87: a blank line is skipped; any other is appended to the list
\* `logs` is bound to (an alias a handler holds sees the new entry).
W84_Append(t) ==
    /\ wpc[t] = "w84"
    /\ IF Strip(line[t]) = Blank
       THEN /\ Goto(t, "w78")
            /\ line' = [line EXCEPT ![t] = NoLine]
            /\ UNCHANGED logs
       ELSE /\ logs' = Append(logs, LogEntry(line[t]))
            /\ Goto(t, "w90")
            /\ UNCHANGED line
    /\ UNCHANGED << mission_thread, stop_mission_flag, current_process,
                    is_running, childVars, dropped, afterStop, seen,
                    loopVars >>

\* Lines 90-91: the trim.  `logs = logs[-1000:]` binds the name to a new
\* list: a handler that holds the old list keeps the old list, untrimmed.
W90_Trim(t) ==
    /\ wpc[t] = "w90"
    /\ logs' = TrimLogs(logs)
    /\ hloc' = IF hloc.alias /\ Len(logs) > LogCapacity
               THEN [hloc EXCEPT !.alias = FALSE, !.recent = logs]
               ELSE hloc
    /\ line' = [line EXCEPT ![t] = NoLine]
    /\ Goto(t, "w78")
    /\ UNCHANGED << mission_thread, stop_mission_flag, current_process,
                    is_running, childVars, dropped, afterStop, seen, hpc,
                    resp >>

\* Lines 93-94: current_process.wait() blocks until the child has exited.
W93_Wait(t) ==
    /\ wpc[t] = "w93"
    /\ \/ /\ current_process = None
          /\ Goto(t, "w99")
       \/ /\ current_process # None
          /\ proc[current_process] = "exited"
          /\ Goto(t, "w99")
    /\ UNCHANGED << globals, line, childVars, dropped, afterStop, seen,
                    loopVars >>

\* W99_ClearRunning without line 99: the finally block leaves is_running.
W99_LeavesRunning(t) ==
    /\ wpc[t] = "w99"
    /\ Goto(t, "w100")
    /\ UNCHANGED << globals, line, childVars, dropped, afterStop, seen,
                    loopVars >>

\* Lines 96-102: `except` logs; `finally` resets the three globals one
\* after the other, logs, and the thread ends.
W99_ClearRunning(t) ==
    /\ wpc[t] = "w99"
    /\ is_running' = FALSE
    /\ Goto(t, "w100")
    /\ UNCHANGED << mission_thread, stop_mission_flag, current_process, logs,
                    line, childVars, dropped, afterStop, seen, loopVars >>

W100_ClearProcess(t) ==
    /\ wpc[t] = "w100"
    /\ current_process' = None
    /\ Goto(t, "w101")
    /\ UNCHANGED << mission_thread, stop_mission_flag, is_running, logs,
                    line, childVars, dropped, afterStop, seen, loopVars >>

W101_ClearFlag(t) ==
    /\ wpc[t] = "w101"
    /\ stop_mission_flag' = FALSE
    /\ Goto(t, "w102")
    /\ UNCHANGED << mission_thread, current_process, is_running, logs,
                    line, childVars, dropped, afterStop, loopVars >>
    /\ Observe

\* Line 102 and the end of the thread.  The Popen object is garbage now and
\* the read end of the pipe is closed: what the child printed and nobody
\* read is gone.
W102_Finish(t) ==
    /\ wpc[t] = "w102"
    /\ Goto(t, "dead")
    /\ pipe' = [pipe EXCEPT ![t] = << >>]
    /\ dropped' = (dropped \/ \E i \in 1..Len(pipe[t]) : pipe[t][i] > Blank)
    /\ UNCHANGED << globals, line, proc, sig, emitted, budget, afterStop,
                    loopVars >>
    /\ Observe

run_mission_background(t) ==
    \/ W42_CheckStop(t) \/ W49_Prepare(t) \/ W64_Popen(t) \/ W74_SetRunning(t)
    \/ W78_Readline(t) \/ W79_CheckStop(t) \/ W81_Terminate(t)
    \/ W84_Append(t) \/ W90_Trim(t) \/ W93_Wait(t)
    \/ W99_ClearRunning(t) \/ W100_ClearProcess(t) \/ W101_ClearFlag(t)
    \/ W102_Finish(t)

\* The worker is in a blocking call that only its child can end: readline
\* on an empty pipe whose write end is open, or wait() on a live child.
WorkerBlocked(t) ==
    \/ wpc[t] = "w78" /\ pipe[t] = << >> /\ proc[t] = "alive"
    \/ wpc[t] = "w93" /\ current_process # None
                      /\ proc[current_process] = "alive"

\* ------------------------------------------------------------ the event loop
At(pc) == hpc = pc
To(pc) == hpc' = pc

\* The handler returns (or raises to the framework): the response is sent.
Return(r) == hpc' = "reply" /\ resp' = r /\ hloc' = NoLocals

\* A request arrives while the loop is idle and its handler is entered.
\* start_mission needs a Thread object the model still has.
Dispatch(req, n) ==
    /\ At("idle")
    /\ req = "start" => \E t \in Threads : wpc[t] = "unborn"
    /\ req # "logs" => n = 0
    /\ hpc' = CASE req = "start"    -> "st144"
                [] req = "stop"     -> "sp174"
                [] req = "status"   -> "ms233"
                [] req = "logs"     -> "gl260"
                [] req = "shutdown" -> "lf110"
    /\ hloc' = [NoLocals EXCEPT !.lines = n]
    /\ resp' = NoResp
    /\ UNCHANGED << globals, workerVars, childVars, dropped, afterStop >>
    /\ Observe

\* The response has been sent; the loop is idle again.
Reply ==
    /\ At("reply")
    /\ To("idle")
    /\ resp' = NoResp
    /\ afterStop' = CASE resp.op = "stop"  -> (afterStop \/ resp.was_running)
                      [] resp.op = "start" -> FALSE
                      [] OTHER             -> afterStop
    /\ UNCHANGED << globals, workerVars, childVars, dropped, seen, hloc >>

\* ------------------------------------------- start_mission (lines 138-165)
\* The Thread object the next start creates.
NextThread == CHOOSE t \in Threads : wpc[t] = "unborn" /\
                  \A u \in Threads : wpc[u] = "unborn" => t <= u

\* StartRejected with the flag cleared before the worker is looked at.
StartRejectedClearsFlag ==
    /\ At("st144")
    /\ WorkerAlive
    /\ stop_mission_flag' = FALSE
    /\ Return([NoResp EXCEPT !.op = "start", !.code = 400, !.status = "error"])
    /\ UNCHANGED << mission_thread, current_process, is_running, logs,
                    workerVars, childVars, dropped, afterStop, seen >>

\* Lines 144-146: a worker is alive: HTTPException(400).
StartRejected ==
    /\ At("st144")
    /\ WorkerAlive
    /\ Return([NoResp EXCEPT !.op = "start", !.code = 400, !.status = "error"])
    /\ UNCHANGED << globals, workerVars, childVars, dropped, afterStop, seen >>

\* StartAccepted without line 150, the clearing of the flag.
StartAcceptedKeepsFlag ==
    /\ At("st144")
    /\ ~WorkerAlive
    /\ mission_thread' = NextThread
    /\ wpc' = [wpc EXCEPT ![NextThread] = "w42"]
    /\ Return([NoResp EXCEPT !.op = "start", !.code = 200,
                             !.status = "success"])
    /\ UNCHANGED << stop_mission_flag, current_process, is_running, logs,
                    line, childVars, dropped, afterStop, seen >>

\* Lines 148-161: clear the flag, bind mission_thread to a new Thread,
\* start it, answer at once.  No worker is alive, so nothing interleaves
\* with these lines but the children.
StartAccepted ==
    /\ At("st144")
    /\ ~WorkerAlive
    /\ stop_mission_flag' = FALSE
    /\ mission_thread' = NextThread
    /\ wpc' = [wpc EXCEPT ![NextThread] = "w42"]
    /\ Return([NoResp EXCEPT !.op = "start", !.code = 200,
                             !.status = "success"])
    /\ UNCHANGED << current_process, is_running, logs, line, childVars,
                    dropped, afterStop, seen >>

\* Lines 155, 163-165: Thread.start() raises (no thread can be started):
\* the flag is clear, mission_thread is the Thread that never ran, and the
\* caller gets HTTPException(500).
StartFailed ==
    /\ At("st144")
    /\ ~WorkerAlive
    /\ stop_mission_flag' = FALSE
    /\ mission_thread' = NextThread
    /\ wpc' = [wpc EXCEPT ![NextThread] = "unstarted"]
    /\ Return([NoResp EXCEPT !.op = "start", !.code = 500, !.status = "error"])
    /\ UNCHANGED << current_process, is_running, logs, line, childVars,
                    dropped, afterStop, seen >>

start_mission == StartRejected \/ StartAccepted \/ StartFailed

\* -------------------------------------------- stop_mission (lines 168-227)
StopResp(st, was) ==
    [NoResp EXCEPT !.op = "stop", !.code = 200, !.status = st,
                   !.was_running = was]

\* A handler step that only moves the handler.
Step(from, to) ==
    /\ At(from)
    /\ To(to)
    /\ UNCHANGED << globals, workerVars, childVars, dropped, afterStop, seen,
                    hloc,
                    resp >>

\* SP174_Check with the flag set before the worker is looked at.
SP174_CheckSetsFlag ==
    /\ At("sp174")
    /\ stop_mission_flag' = TRUE
    /\ IF WorkerAlive
       THEN To("sp184") /\ UNCHANGED << hloc, resp >>
       ELSE Return(StopResp("success", FALSE))
    /\ UNCHANGED << mission_thread, current_process, is_running, logs,
                    workerVars, childVars, dropped, afterStop, seen >>

\* Lines 174-180: no worker alive: nothing to do.
SP174_Check ==
    /\ At("sp174")
    /\ IF WorkerAlive
       THEN To("sp184") /\ UNCHANGED << hloc, resp >>
       ELSE Return(StopResp("success", FALSE))
    /\ UNCHANGED << globals, workerVars, childVars, dropped, afterStop, seen >>

\* Line 184: stop_mission_flag.set().
SP184_SetFlag ==
    /\ At("sp184")
    /\ stop_mission_flag' = TRUE
    /\ To("sp188")
    /\ UNCHANGED << mission_thread, current_process, is_running, logs,
                    workerVars, childVars, dropped, afterStop, seen, hloc,
                    resp >>

\* Line 188: `if current_process:`.
SP188_HasProcess ==
    Step("sp188", IF current_process # None THEN "sp190" ELSE "sp202")

\* Line 190: current_process.terminate().  The global is read again: None
\* raises AttributeError, caught at line 218.
SP190_Terminate ==
    /\ At("sp190")
    /\ IF current_process = None
       THEN To("sp221") /\ UNCHANGED sig
       ELSE To("sp194") /\ Terminate(current_process)
    /\ UNCHANGED << globals, workerVars, proc, pipe, emitted, budget,
                    dropped, afterStop, seen,
                    hloc, resp >>

\* Line 194: current_process.wait(timeout=5): the global is read once more
\* and the wait is on the object found.
SP194_WaitCall ==
    /\ At("sp194")
    /\ IF current_process = None
       THEN To("sp221") /\ UNCHANGED hloc
       ELSE To("sp194w") /\ hloc' = [hloc EXCEPT !.obj = current_process]
    /\ UNCHANGED << globals, workerVars, childVars, dropped, afterStop, seen,
                    resp >>

\* SP194_Waited without the kill: on to the join whatever the child did.
SP194_WaitedNoKill ==
    /\ At("sp194w")
    /\ To("sp202")
    /\ hloc' = [hloc EXCEPT !.obj = None]
    /\ UNCHANGED << globals, workerVars, childVars, dropped, afterStop, seen,
                    resp >>

\* Lines 194-197: the child exits within the grace period, or the period
\* expires with the child still alive (TimeoutExpired).
SP194_Waited ==
    /\ At("sp194w")
    /\ To(IF proc[hloc.obj] = "exited" THEN "sp202" ELSE "sp198")
    /\ hloc' = [hloc EXCEPT !.obj = None]
    /\ UNCHANGED << globals, workerVars, childVars, dropped, afterStop, seen,
                    resp >>

\* Line 198: current_process.kill().
SP198_Kill ==
    /\ At("sp198")
    /\ IF current_process = None
       THEN To("sp221") /\ UNCHANGED sig
       ELSE To("sp199") /\ Kill(current_process)
    /\ UNCHANGED << globals, workerVars, proc, pipe, emitted, budget,
                    dropped, afterStop, seen,
                    hloc, resp >>

\* Line 199: current_process.wait().
SP199_WaitCall ==
    /\ At("sp199")
    /\ IF current_process = None
       THEN To("sp221") /\ UNCHANGED hloc
       ELSE To("sp199w") /\ hloc' = [hloc EXCEPT !.obj = current_process]
    /\ UNCHANGED << globals, workerVars, childVars, dropped, afterStop, seen,
                    resp >>

SP199_Waited ==
    /\ At("sp199w")
    /\ proc[hloc.obj] = "exited"
    /\ To("sp202")
    /\ hloc' = [hloc EXCEPT !.obj = None]
    /\ UNCHANGED << globals, workerVars, childVars, dropped, afterStop, seen,
                    resp >>

\* Line 202: `if mission_thread and mission_thread.is_alive():`.
SP202_StillAlive ==
    Step("sp202", IF WorkerAlive THEN "sp204" ELSE "sp209")

\* Lines 204-206: join(timeout=10) returns when the worker has finished, or
\* when the ten seconds are over: the worker's own steps take far less, so
\* the time runs out only on a worker that is blocked on its child.
SP204_Join ==
    /\ At("sp204")
    /\ ~WorkerAlive \/ WorkerBlocked(mission_thread)
    /\ Step("sp204", "sp209")

\* Lines 209-216: is_running = False; success.
SP209_Success ==
    /\ At("sp209")
    /\ is_running' = FALSE
    /\ Return(StopResp("success", TRUE))
    /\ UNCHANGED << mission_thread, stop_mission_flag, current_process, logs,
                    workerVars, childVars, dropped, afterStop, seen >>

\* Lines 218-221: the handler of any exception: is_running = False.
SP221_ClearRunning ==
    /\ At("sp221")
    /\ is_running' = FALSE
    /\ To("sp222")
    /\ UNCHANGED << mission_thread, stop_mission_flag, current_process, logs,
                    workerVars, childVars, dropped, afterStop, seen, hloc,
                    resp >>

\* SP222_Error without line 222: the error path leaves the flag as it is.
SP222_ErrorKeepsFlag ==
    /\ At("sp222")
    /\ Return(StopResp("error", TRUE))
    /\ UNCHANGED << globals, workerVars, childVars, dropped, afterStop, seen >>

\* Lines 222-227: stop_mission_flag.set(); status "error".
SP222_Error ==
    /\ At("sp222")
    /\ stop_mission_flag' = TRUE
    /\ Return(StopResp("error", TRUE))
    /\ UNCHANGED << mission_thread, current_process, is_running, logs,
                    workerVars, childVars, dropped, afterStop, seen >>

stop_mission ==
    \/ SP174_Check \/ SP184_SetFlag \/ SP188_HasProcess \/ SP190_Terminate
    \/ SP194_WaitCall \/ SP194_Waited \/ SP198_Kill \/ SP199_WaitCall
    \/ SP199_Waited \/ SP202_StillAlive \/ SP204_Join \/ SP209_Success
    \/ SP221_ClearRunning \/ SP222_Error

\* ------------------------------------------------ lifespan (lines 104-116)
\* was_running: the hook found a worker alive at line 110.
HookResp(st, was) ==
    [NoResp EXCEPT !.op = "shutdown", !.status = st, !.was_running = was]

\* The shutdown half of lifespan is over; no handler runs any more.  The
\* worker is not a daemon thread and goes on until it finishes.
HookEnds(st, was) ==
    hpc' = "down" /\ resp' = HookResp(st, was) /\ hloc' = NoLocals

\* Line 110: nothing to do without a live worker.
LF110_Check ==
    /\ At("lf110")
    /\ IF WorkerAlive
       THEN To("lf112") /\ UNCHANGED << hloc, resp >>
       ELSE HookEnds("done", FALSE)
    /\ UNCHANGED << globals, workerVars, childVars, dropped, afterStop, seen >>

\* Line 112: stop_mission_flag.set().
LF112_SetFlag ==
    /\ At("lf112")
    /\ stop_mission_flag' = TRUE
    /\ To("lf113")
    /\ UNCHANGED << mission_thread, current_process, is_running, logs,
                    workerVars, childVars, dropped, afterStop, seen, hloc,
                    resp >>

\* Line 113: `if current_process:`.
LF113_HasProcess ==
    Step("lf113", IF current_process # None THEN "lf114" ELSE "lf115")

\* Line 114: current_process.terminate(), the global read again: on None
\* the AttributeError leaves lifespan, nothing catches it.
LF114_Terminate ==
    /\ At("lf114")
    /\ IF current_process = None
       THEN HookEnds("raised", TRUE) /\ UNCHANGED sig
       ELSE To("lf115") /\ Terminate(current_process)
                        /\ UNCHANGED << hloc, resp >>
    /\ UNCHANGED << globals, workerVars, proc, pipe, emitted, budget,
                    dropped, afterStop, seen >>

\* Line 115: join(timeout=5.0), as in stop_mission.
LF115_Join ==
    /\ At("lf115")
    /\ ~WorkerAlive \/ WorkerBlocked(mission_thread)
    /\ Step("lf115", "lf116")

\* Line 116: is_running = False.
LF116_ClearRunning ==
    /\ At("lf116")
    /\ is_running' = FALSE
    /\ HookEnds("done", TRUE)
    /\ UNCHANGED << mission_thread, stop_mission_flag, current_process, logs,
                    workerVars, childVars, dropped, afterStop, seen >>

lifespan ==
    \/ LF110_Check \/ LF112_SetFlag \/ LF113_HasProcess \/ LF114_Terminate
    \/ LF115_Join \/ LF116_ClearRunning

\* ------------------------------------------ mission_status (lines 229-249)
\* `xs[-n:] if len(xs) > n else xs` (lines 240, 268, 272).
TailOrAll(xs, n) == IF Len(xs) > n THEN PySliceFromMinus(xs, n) ELSE xs

\* A handler step that changes only the handler's locals.
Local(from, to, l) ==
    /\ At(from)
    /\ To(to)
    /\ hloc' = l
    /\ UNCHANGED << globals, workerVars, childVars, dropped, afterStop, seen,
                    resp >>

\* Lines 233-234, 237-238.
MS233_Alive ==
    IF WorkerAlive
    THEN Local("ms233", "ms235", [hloc EXCEPT !.status = "running"])
    ELSE Local("ms233", "ms240", [hloc EXCEPT !.status = "idle"])

\* MS235_Flag leaving the flag unread: the status of a live worker is running.
MS235_FlagIgnored ==
    Local("ms235", "ms240", [hloc EXCEPT !.status = "running"])

\* Lines 235-236.
MS235_Flag ==
    Local("ms235", "ms240",
          [hloc EXCEPT !.status = IF stop_mission_flag THEN "stopping"
                                  ELSE "running"])

\* Line 240: a slice is a new list; `else logs` is the list itself.
MS240_Recent ==
    Local("ms240", "ms244",
          IF Len(logs) > RecentCount
          THEN [hloc EXCEPT !.recent = TailOrAll(logs, RecentCount)]
          ELSE [hloc EXCEPT !.alias = TRUE])

\* Lines 244-247: the four values of the response, read one after another.
MS244_ThreadAlive ==
    Local("ms244", "ms245", [hloc EXCEPT !.thread_alive = WorkerAlive])

MS245_StopRequested ==
    Local("ms245", "ms246",
          [hloc EXCEPT !.stop_requested = stop_mission_flag])

MS246_IsRunning ==
    Local("ms246", "ms247", [hloc EXCEPT !.running = is_running])

MS247_TotalLogs ==
    Local("ms247", "ms249", [hloc EXCEPT !.total_lines = Len(logs)])

\* The list a handler local stands for when the response is encoded.
Seen(l) == IF l.alias THEN logs ELSE l.recent

\* Line 249 and the framework's encoding of the returned dict.
MS249_Return ==
    /\ At("ms249")
    /\ Return([NoResp EXCEPT !.op = "status", !.code = 200,
                 !.status = hloc.status,
                 !.thread_alive = hloc.thread_alive,
                 !.stop_requested = hloc.stop_requested,
                 !.is_running = hloc.running,
                 !.total_logs = hloc.total_lines,
                 !.recent_logs = Seen(hloc)])
    /\ UNCHANGED << globals, workerVars, childVars, dropped, afterStop >>
    /\ Observe

mission_status ==
    \/ MS233_Alive \/ MS235_Flag \/ MS240_Recent \/ MS244_ThreadAlive
    \/ MS245_StopRequested \/ MS246_IsRunning \/ MS247_TotalLogs
    \/ MS249_Return

\* ------------------------------------------------ get_logs (lines 251-288)
\* The values of the `lines` query parameter tried.
LinesArgs == 0..MaxArg

\* Contents of the external log file: line i is text (i) or blank.
Files ==
    UNION { { [i \in 1..k |-> IF b[i] THEN i ELSE Blank] :
              b \in [1..k -> BOOLEAN] } : k \in 0..MaxFile }

\* What stands in `logs` of the response for a message, not a log line.
Placeholder == -3

\* Line 271: [line.strip() for line in recent_lines if line.strip()].
NonBlank(l) == Strip(l) # Blank
FileLogs(all_lines, n) == SelectSeq(TailOrAll(all_lines, n), NonBlank)

LogsResp(st, n) ==
    [NoResp EXCEPT !.op = "logs", !.code = 200, !.status = st, !.lines = n]

\* Lines 260-262: the log file does not exist.
GL260_Missing ==
    /\ At("gl260")
    /\ Return([LogsResp("missing", hloc.lines) EXCEPT
                 !.logs = << Placeholder >>,
                 !.runtime_logs = PySliceFromMinus(logs, hloc.lines)])
    /\ UNCHANGED << globals, workerVars, childVars, dropped, afterStop, seen >>

\* Lines 260, 264-265: the file exists; on to reading it.
GL260_Exists == Step("gl260", "gl264")

\* Lines 264-271: all_lines = f.readlines().
GL264_Read ==
    \E f \in Files :
        Local("gl264", "gl272", [hloc EXCEPT !.file = f])

\* Lines 264-265, 282-283: open or read raises.
GL264_Raise == Step("gl264", "gl287")

\* Line 272: runtime_logs is a slice, or the list itself.
GL272_Runtime ==
    Local("gl272", "gl279",
          IF Len(logs) > hloc.lines
          THEN [hloc EXCEPT !.recent = TailOrAll(logs, hloc.lines)]
          ELSE [hloc EXCEPT !.alias = TRUE])

\* Line 279: total_runtime_logs = len(logs).
GL279_Total ==
    Local("gl279", "gl280", [hloc EXCEPT !.total_lines = Len(logs)])

\* Lines 275-280 and the framework's encoding of the returned dict.
GL280_Return ==
    /\ At("gl280")
    /\ Return([LogsResp("ok", hloc.lines) EXCEPT
                 !.logs = FileLogs(hloc.file, hloc.lines),
                 !.total_lines = Len(hloc.file),
                 !.runtime_logs = Seen(hloc),
                 !.total_logs = hloc.total_lines])
    /\ UNCHANGED << globals, workerVars, childVars, dropped, afterStop, seen >>

\* Lines 284-288: `logs[-lines:] if logs else []`.
GL287_Error ==
    /\ At("gl287")
    /\ Return([LogsResp("read_error", hloc.lines) EXCEPT
                 !.logs = << Placeholder >>,
                 !.runtime_logs = IF logs # << >>
                                  THEN PySliceFromMinus(logs, hloc.lines)
                                  ELSE << >>])
    /\ UNCHANGED << globals, workerVars, childVars, dropped, afterStop, seen >>

get_logs ==
    \/ GL260_Missing \/ GL260_Exists \/ GL264_Read \/ GL264_Raise
    \/ GL272_Runtime \/ GL279_Total \/ GL280_Return \/ GL287_Error

\* ------------------------------------------------------------------- Next
Worker == \E t \in Threads : run_mission_background(t)

Child == \E c \in Threads : ChildPrint(c) \/ ChildExit(c) \/ ChildKilled(c)

\* The calls that change the mission: start, stop, and the shutdown of the
\* service.
Control == \E req \in {"start", "stop", "shutdown"} : Dispatch(req, 0)

\* The service under start, stop and shutdown, with the worker and the
\* children running beside the handler in progress.
Next ==
    \/ Control
    \/ Reply
    \/ start_mission
    \/ stop_mission
    \/ lifespan
    \/ Worker
    \/ Child

Spec == Init /\ [][Next]_vars

\* Scheduling: a handler that was entered runs to its end, the worker thread
\* gets the processor, and a child sent SIGKILL dies.  Nothing obliges a
\* client to send a request, or the child to print, to exit or to honour
\* SIGTERM.
Fairness ==
    /\ WF_vars(Reply)
    /\ WF_vars(start_mission)
    /\ WF_vars(stop_mission)
    /\ WF_vars(lifespan)
    /\ WF_vars(Worker)
    /\ WF_vars(\E c \in Threads : ChildKilled(c))

FairSpec == Spec /\ Fairness

\* ------------------------------------------- the log list near its capacity
\* Numbers of text lines printed, and read by the worker, before the runs
\* of LogSpec begin.
Prefills == {0, 9, 999, 1500}

\* The log list after k text lines were logged: the last 1000 of 1..k.
Filled(k) ==
    [i \in 1..Min(k, LogCapacity) |-> k - Min(k, LogCapacity) + i]

\* A mission in progress: the worker of thread 1 is about to read the next
\* line of its child, which has printed k text lines so far, all logged.
InitLog ==
    /\ mission_thread = 1
    /\ stop_mission_flag = FALSE
    /\ current_process = 1
    /\ is_running = TRUE
    /\ \E k \in Prefills : logs = Filled(k) /\ emitted = k
    /\ wpc = [t \in Threads |-> IF t = 1 THEN "w78" ELSE "unborn"]
    /\ line = [t \in Threads |-> NoLine]
    /\ proc = [c \in Threads |-> IF c = 1 THEN "alive" ELSE "none"]
    /\ sig = [c \in Threads |-> "none"]
    /\ pipe = [c \in Threads |-> << >>]
    /\ budget = LogLines
    /\ dropped = FALSE
    /\ afterStop = FALSE
    /\ seen = {}
    /\ hpc = "idle"
    /\ hloc = NoLocals
    /\ resp = NoResp

\* The worker from the streaming loop to its end, no stop being requested.
Streaming ==
    \E t \in Threads :
        \/ W78_Readline(t) \/ W79_CheckStop(t) \/ W84_Append(t)
        \/ W90_Trim(t) \/ W93_Wait(t) \/ W99_ClearRunning(t)
        \/ W100_ClearProcess(t) \/ W101_ClearFlag(t) \/ W102_Finish(t)

Printing == \E c \in Threads : ChildPrint(c) \/ ChildExit(c)

\* The mission in progress, observed by mission_status calls.
NextLog ==
    \/ Dispatch("status", 0)
    \/ Reply
    \/ mission_status
    \/ Streaming
    \/ Printing

LogSpec == InitLog /\ [][NextLog]_vars

\* The mission in progress, observed by get_logs calls.
NextRead ==
    \/ \E n \in LinesArgs : Dispatch("logs", n)
    \/ Reply
    \/ get_logs
    \/ Streaming
    \/ Printing

ReadSpec == InitLog /\ [][NextRead]_vars

\* ------------------------------------------------ the status under control
\* The service under start and stop, observed by mission_status calls.
NextStatus ==
    \/ \E req \in {"start", "stop", "status"} : Dispatch(req, 0)
    \/ Reply
    \/ start_mission
    \/ stop_mission
    \/ mission_status
    \/ Worker
    \/ Child

StatusSpec == Init /\ [][NextStatus]_vars

\* ============================================================== the claims
AliveWorkers == {t \in Threads : IsAlive(t)}
LiveChildren == {c \in Threads : proc[c] = "alive"}

\* The step by which the handler in progress leaves the line it is at.
Leaves(pc) == hpc = pc /\ hpc' # pc

\* C1: in every reachable state at most one mission worker is alive and at
\* most one child process spawned by the service is alive.
C1_AtMostOneWorkerAndChild ==
    /\ Cardinality(AliveWorkers) <= 1
    /\ Cardinality(LiveChildren) <= 1

\* C2: a start call made while the worker is alive is rejected with 400 and
\* changes nothing: no new worker, and the stop flag, the worker handle, the
\* process handle and is_running keep their values.
C2_StartWhileAliveRejected ==
    [][ (Leaves("st144") /\ WorkerAlive) =>
          /\ resp'.op = "start" /\ resp'.code = 400
          /\ UNCHANGED << mission_thread, stop_mission_flag, current_process,
                          is_running, logs, wpc, proc >> ]_vars

\* A start is being answered with 400 while the mission is stopping.
C2_Witness ==
    /\ hpc = "reply" /\ resp.op = "start" /\ resp.code = 400
    /\ Status = "stopping"

\* What a start call that finds no worker alive does when it succeeds: one
\* new Thread, started and not yet run, is the only live worker; the call
\* touched no child and did not wait for one.
StartedOne ==
    /\ mission_thread' \notin Created
    /\ AliveWorkers' = {mission_thread'}
    /\ wpc'[mission_thread'] = "w42"
    /\ Status' = "running"
    /\ UNCHANGED << current_process, is_running, logs, proc >>

\* The status stops being "running" only when the worker finishes or when
\* stop_mission (lines 184, 222) or the shutdown hook (line 112) sets the
\* flag.
RunningUntilFinishedOrStopped ==
    (Status = "running" /\ Status' # "running") =>
        \/ ~WorkerAlive'
        \/ hpc \in {"sp184", "sp222", "lf112"}

\* C3 as stated: a start call made when no worker is alive never returns an
\* error: it clears the flag, creates exactly one new worker and returns
\* success, and the status is running until the worker finishes or a stop
\* is requested.
C3_StartWhenIdleNeverFails ==
    [][ /\ (Leaves("st144") /\ ~WorkerAlive) =>
             /\ resp'.op = "start" /\ resp'.code = 200
             /\ ~stop_mission_flag'
             /\ StartedOne
        /\ RunningUntilFinishedOrStopped ]_vars

\* C3 as amended: a start call made when no worker is alive is never
\* rejected with 400 and always clears the flag; it returns success, having
\* created exactly one new worker, unless the thread cannot be started:
\* then it returns 500 and no worker is alive.  After a success the status
\* is running until the worker finishes or a stop is requested.
C3_StartWhenIdle ==
    [][ /\ (Leaves("st144") /\ ~WorkerAlive) =>
             /\ resp'.op = "start" /\ resp'.code \in {200, 500}
             /\ ~stop_mission_flag'
             /\ resp'.code = 200 => StartedOne
             /\ resp'.code = 500 =>
                    /\ AliveWorkers' = {}
                    /\ UNCHANGED << current_process, is_running, logs, proc >>
        /\ RunningUntilFinishedOrStopped ]_vars

\* A start is being answered with success while its worker has already
\* failed before spawning a child.
C3_Witness ==
    /\ hpc = "reply" /\ resp.op = "start" /\ resp.code = 200
    /\ wpc[mission_thread] = "w99" /\ proc[mission_thread] = "none"

\* C4: a stop call made when no worker is alive returns success with
\* was_running = false and mutates nothing, so the status stays idle and a
\* repetition finds the same state and gives the same answer.
C4_StopWhenIdle ==
    [][ (Leaves("sp174") /\ ~WorkerAlive) =>
          /\ resp' = StopResp("success", FALSE)
          /\ Status' = "idle"
          /\ UNCHANGED << mission_thread, stop_mission_flag, current_process,
                          is_running, logs, wpc, proc >> ]_vars

\* A stop is being answered with was_running = false after a mission ran
\* and ended.
C4_Witness ==
    /\ hpc = "reply" /\ resp.op = "stop" /\ resp.status = "success"
    /\ ~resp.was_running
    /\ mission_thread # None /\ wpc[mission_thread] = "dead"

\* C5: whenever stop is called while the worker is alive, the call reports
\* was_running = true, the status becomes stopping, and the worker
\* eventually finishes, so that the status eventually becomes idle,
\* whatever point of the mission loop the worker had reached.
\* ("sp184" is where stop is once it has found the worker alive; it sets
\* the flag there and both its ways out report was_running = true.)
C5_StopLeadsToIdle == (hpc = "sp184") ~> (Status = "idle")

\* C6: after a stop call that found a worker alive has returned, the next
\* start call succeeds: by then the worker has finished, the stop flag is
\* clear and the process handle is null, so start is not rejected with 400.
C6_StartAfterStopSucceeds ==
    /\ (hpc = "st144" /\ afterStop) =>
          ~WorkerAlive /\ ~stop_mission_flag /\ current_process = None
    /\ (hpc = "reply" /\ resp.op = "start" /\ afterStop) => resp.code # 400

\* C10: when the service shuts down while a mission worker is alive, the
\* shutdown hook completes and, once it has, no child process spawned by
\* the service is still alive.  Stated of the child of the mission the hook
\* found in progress, which is the least the claim says.
C10_ShutdownLeavesNoChild ==
    (hpc = "down" /\ resp.was_running) => proc[mission_thread] # "alive"

\* C7: the log buffer holds at most 1000 entries in every reachable state,
\* the states between two steps of the worker included.
C7_LogsAtMostCapacity == Len(logs) <= LogCapacity

\* Every text line printed so far has been read and logged: none waits in a
\* pipe and the worker is not between reading a line and trimming the list.
AllLogged ==
    /\ \A c \in Threads : \A i \in 1..Len(pipe[c]) : pipe[c][i] <= Blank
    /\ \A t \in Threads : wpc[t] \notin {"w79", "w84", "w90"}

\* C8: after the worker has processed the lines printed, no stop being
\* requested, the buffer holds exactly the entries of the most recent
\* min(k, 1000) text lines of the k printed since service start, in the
\* order they were printed.
C8_LogsAreMostRecent ==
    (~dropped /\ AllLogged) => logs = Filled(emitted)

\* More than 1000 lines were printed, the last of them in this run, all
\* are logged, and the list is full.
C8_Witness ==
    /\ ~dropped /\ AllLogged
    /\ emitted > LogCapacity /\ budget < LogLines
    /\ Len(logs) = LogCapacity

\* C9: for every requested line count N >= 0 the /logs response holds at
\* most N entries in runtime_logs and at most N entries in logs, on each
\* return path of the handler.
C9_LogsReturnsAtMostN ==
    (hpc = "reply" /\ resp.op = "logs") =>
        /\ Len(resp.runtime_logs) <= resp.lines
        /\ resp.status = "ok" => Len(resp.logs) <= resp.lines

\* C11: the status mission_status reports is a function of the state of the
\* service: it is the status (running: worker alive and flag clear;
\* stopping: worker alive and flag set; idle: no worker alive) of a state
\* the service was in between the call and its return, and every step of
\* the handler leaves the globals, the worker and the children as they
\* were.  (seen is checked to be that history: it holds the status of every
\* state since the call began.)
C11_StatusIsFunctionOfState ==
    [][ /\ (hpc \in MsPcs /\ hpc' # hpc) =>
              UNCHANGED << globals, workerVars, childVars >>
        /\ (hpc = "ms249" /\ hpc' = "reply") =>
              /\ resp'.op = "status"
              /\ resp'.status \in seen
        /\ hpc' \in MsPcs =>
              /\ Status' \in seen'
              /\ hpc \in MsPcs => seen \subseteq seen' ]_vars

\* A status call reports stopping for a worker that a stop found alive.
C11_Witness ==
    /\ hpc = "reply" /\ resp.op = "status" /\ resp.status = "stopping"
    /\ WorkerAlive /\ stop_mission_flag

\* The edges of the mission state machine: Idle->Running (start),
\* Running->Stopping (stop while running), Stopping->Idle (worker
\* completion), Running->Idle (the child exits, no stop requested).
StatusEdges ==
    { << "idle", "running" >>, << "running", "stopping" >>,
      << "stopping", "idle" >>, << "running", "idle" >> }

\* C12: over every execution the derived status changes only along the four
\* edges of the state machine; Stopping->Running and Idle->Stopping never
\* occur, the worker's cleanup included.
C12_StatusChangesAlongEdges ==
    [][ Status' # Status => << Status, Status' >> \in StatusEdges ]_vars

\* C13: in every reachable state a non-null process handle implies that
\* is_running is true, between the spawn and the setting of is_running and
\* after stop or the shutdown hook has cleared is_running included.
C13_ProcessImpliesRunning == current_process # None => is_running

\* C18: in every reachable state in which no worker is alive the stop flag
\* is clear, so an idle service never reports stop_requested = true.
C18_IdleImpliesFlagClear == ~WorkerAlive => ~stop_mission_flag

\* C19: in every reachable state is_running implies that the worker is alive
\* and that the process handle is non-null; whenever no worker is alive,
\* is_running is false.
C19_RunningImpliesWorkerAndProcess ==
    /\ is_running => (WorkerAlive /\ current_process # None)
    /\ ~WorkerAlive => ~is_running

\* The worker has set is_running and stop, having found no process handle
\* and given up its join, is about to clear it.
C19_Witness ==
    /\ is_running /\ hpc = "sp209"
    /\ wpc[mission_thread] = "w78" /\ stop_mission_flag

\* The places of the stop_mission handler.
StopPcs == {"sp174", "sp184", "sp188", "sp190", "sp194", "sp194w", "sp198",
            "sp199", "sp199w", "sp202", "sp204", "sp209", "sp221", "sp222"}

\* C14: stop never raises to its caller.  Every step of stop stays in stop
\* or returns a 200 response, and on every return is_running is false; a
\* step that fails after the worker was found alive is caught (sp221 is the
\* except clause), and the call returns status error with was_running =
\* true, is_running false and the stop flag set.
C14_StopNeverRaises ==
    [][ /\ (hpc \in StopPcs /\ hpc' # hpc) =>
              /\ hpc' \in StopPcs \cup {"reply"}
              /\ hpc' = "reply" =>
                    /\ resp'.op = "stop" /\ resp'.code = 200
                    /\ ~is_running'
        /\ (hpc = "sp221" /\ hpc' # hpc) => hpc' = "sp222"
        /\ (hpc = "sp222" /\ hpc' # hpc) =>
              /\ resp' = StopResp("error", TRUE)
              /\ ~is_running' /\ stop_mission_flag' ]_vars

\* Stop is answering status error: the worker cleared the process handle
\* after stop had seen it, and has cleared the flag since.
C14_Witness ==
    /\ hpc = "reply" /\ resp = StopResp("error", TRUE)
    /\ current_process = None /\ wpc[mission_thread] \in {"w102", "dead"}

\* C15: on every path by which the worker leaves the mission loop no
\* exception escapes and the cleanup runs: when the worker has finished
\* its cleanup (the thread ends), is_running is false, the process handle
\* is null and the stop flag is clear.
C15_CleanupLeavesCleanState ==
    [][ \A t \in Threads :
          (wpc[t] # "dead" /\ wpc'[t] = "dead") =>
              /\ wpc[t] = "w102"
              /\ ~is_running'
              /\ current_process' = None
              /\ ~stop_mission_flag' ]_vars

\* C16: when stop has found the worker alive and seen a process handle, it
\* asks for graceful termination first, force-kills only when the grace
\* wait has expired with the child still alive, and goes on to the join
\* only when that child has exited; an exited child stays exited, so a
\* stop that returns success after it saw a handle leaves no such child
\* alive.
C16_TerminateThenKill ==
    [][ /\ (hpc = "sp190" /\ hpc' = "sp194") =>
              (proc[current_process] = "alive" =>
                   sig'[current_process] \in {"term", "kill"})
        /\ (\E c \in Threads : sig'[c] = "kill" /\ sig[c] # "kill") =>
              hpc = "sp198"
        /\ (hpc # "sp198" /\ hpc' = "sp198") =>
              (hpc = "sp194w" /\ proc[hloc.obj] = "alive")
        /\ (hpc # "sp202" /\ hpc' = "sp202") =>
              \/ hpc = "sp188" /\ current_process = None
              \/ hpc \in {"sp194w", "sp199w"} /\ proc'[hloc.obj] = "exited"
        /\ \A c \in Threads : proc[c] = "exited" => proc'[c] = "exited" ]_vars

\* Stop waits for a child it had to kill, and the child has died.
C16_Witness ==
    /\ hpc = "sp199w" /\ proc[hloc.obj] = "exited"
    /\ WorkerAlive

\* The places of the worker after the streaming loop.
AfterLoop == {"w93", "w99", "w100", "w101", "w102", "dead"}

\* C17: the worker checks the stop flag once per line before it handles the
\* line.  The flag is never cleared while a worker is in the loop, so a
\* line read while the flag is set meets it set at the check: such a line
\* is not appended, the child is asked to terminate, and the worker leaves
\* the loop for good: it reads and appends nothing afterwards.  The list
\* changes only by the append of a non-blank line and its trim.
C17_StopCheckedBeforeLine ==
    [][ \A t \in Threads :
          /\ (stop_mission_flag /\ ~stop_mission_flag') =>
                wpc[t] \notin {"w78", "w79", "w81", "w84", "w90"}
          /\ (wpc[t] = "w79" /\ stop_mission_flag /\ wpc'[t] # wpc[t]) =>
                wpc'[t] = "w81" /\ logs' = logs
          /\ (wpc[t] = "w81" /\ wpc'[t] # wpc[t]) =>
                /\ wpc'[t] = "w93" /\ logs' = logs
                /\ proc[t] = "alive" => sig'[t] \in {"term", "kill"}
          /\ wpc[t] \in AfterLoop =>
                /\ wpc'[t] \in AfterLoop
                /\ wpc'[t] # wpc[t] =>
                      /\ logs' = logs
                      /\ pipe'[t] = pipe[t] \/ wpc'[t] = "dead"
          /\ (wpc[t] = "w84" /\ wpc'[t] # wpc[t]) =>
                logs' = IF line[t] = Blank THEN logs
                        ELSE Append(logs, line[t])
          /\ logs' # logs =>
                \E u \in Threads : wpc[u] \in {"w84", "w90"} /\ wpc'[u] # wpc[u]
          /\ \A i \in 1..Len(logs') : logs'[i] # Blank ]_vars

\* The worker threw a text line away on a stop and waits for the child it
\* asked to terminate.
C17_Witness ==
    \E t \in Threads :
        /\ wpc[t] = "w93" /\ dropped /\ stop_mission_flag
        /\ sig[t] = "term" /\ logs = << >>

\* C20: every mission_status response is consistent in itself: status is
\* idle exactly when the reported thread_alive is false, stopping implies
\* the reported stop_requested, running implies no reported stop_requested,
\* and recent_logs has at most 10 entries and at most total_logs entries.
C20_StatusResponseConsistent ==
    (hpc = "reply" /\ resp.op = "status") =>
        /\ resp.status = "idle" <=> ~resp.thread_alive
        /\ resp.status = "stopping" => resp.stop_requested
        /\ resp.status = "running" => ~resp.stop_requested
        /\ Len(resp.recent_logs) <= RecentCount
        /\ Len(resp.recent_logs) <= resp.total_logs
====
